---------------------------- MODULE Spec2Model ----------------------------
(***************************************************************************)
(* Model of app2.py: a Streamlit page that turns text into an MP3 with one  *)
(* of two backends (Edge-TTS, gTTS).  The script runs top to bottom on each *)
(* user interaction; the part modelled is the Generate handler and the two  *)
(* synthesis functions it calls, together with the files under outputs/.    *)
(*                                                                         *)
(* Conventions.                                                            *)
(*  - A speed is kept in thousandths (1.25 is 1250), so the arithmetic of   *)
(*    speed_to_edge_rate and str(speed) is exact integer arithmetic.        *)
(*  - A Python str that the code builds is a sequence of string tokens;     *)
(*    formatting and replacing are computed token by token.                 *)
(*  - The file system is a function from the paths that exist to contents.  *)
(*    Path.rename has its POSIX meaning (os.rename replaces an existing     *)
(*    target atomically), the platform Streamlit deployments run on.        *)
(*  - The event loop follows CPython's asyncio: asyncio.run and             *)
(*    loop.run_until_complete both raise RuntimeError, without starting the *)
(*    coroutine, when the thread already runs an event loop.                *)
(***************************************************************************)
EXTENDS Integers, Sequences, FiniteSets, TLC

VARIABLES
    pc,          \* position of the script / of the function being executed
    run,         \* number of script runs so far (this one included)
    clock,       \* wall clock, in seconds, read by dt.datetime.now()
    text, lang, gender, engine, speed,   \* widget values read by this run
    filename,    \* line 118 (<<>> while not computed)
    fs,          \* files: path -> content
    attempt,     \* 0: none, 1: under asyncio.run, 2: under the fallback loop
    loopRunning, \* the thread already runs an event loop
    loop,        \* the fallback loop: "none", "open", "closed"
    bodyRuns,    \* executions of the body of synthesize_edge_tts in this run
    comm,        \* arguments given to edge_tts.Communicate (voice, rate)
    chunks,      \* chunks yielded so far by communicate.stream()
    gttsCalls,   \* calls of gTTS(...).save in this run
    stretchOps,  \* pydub operations invoked in this run
    failedAt,    \* where the function that raised failed ("" when none)
    exc,         \* exception in flight or last raised ("" when none)
    fnEnd,       \* how the last synthesis function ended
    msgs,        \* st.warning / st.success / st.error shown in this run
    offered,     \* bytes given to st.audio and st.download_button, or NoFile
    reqs,        \* per run that computed a filename: its parameters
    writes       \* <<run, path>> for every path a run created or replaced

vars == <<pc, run, clock, text, lang, gender, engine, speed, filename, fs,
          attempt, loopRunning, loop, bodyRuns, comm, chunks, gttsCalls,
          stretchOps, failedAt, exc, fnEnd, msgs, offered, reqs, writes>>

-----------------------------------------------------------------------------
(* Bounds *)
MaxChunks == 2      \* chunks a stream yields at most
MaxRuns == 3        \* script runs (interactions) in one session (SpecRuns)

-----------------------------------------------------------------------------
(* Settings, lines 16-28 *)
VoiceKeys == {<<"en", "Female">>, <<"en", "Male">>, <<"ja", "Female">>, <<"ja", "Male">>}

VOICES == [k \in VoiceKeys |->
             CASE k = <<"en", "Female">> -> "en-US-JennyNeural"
               [] k = <<"en", "Male">>   -> "en-US-GuyNeural"
               [] k = <<"ja", "Female">> -> "ja-JP-NanamiNeural"
               [] k = <<"ja", "Male">>   -> "ja-JP-KeitaNeural"]

SPEED_OPTIONS == {500, 750, 1000, 1250, 1500}

LangLabels == {"English", "Japanese"}
GenderOptions == {"Female", "Male"}
EngineOptions == {<<"Edge-TTS", " (recommended)">>, <<"gTTS", " (fallback)">>}

\* Texts the user may have typed: empty, whitespace only, and with content.
Whitespace == {" ", "\t", "\n"}
DEFAULT_TEXT == <<"T", "h", "e">>
TextInputs == { <<>>, <<" ">>, <<" ", "\t", "\n">>, <<" ", "a", " ">>, DEFAULT_TEXT }

-----------------------------------------------------------------------------
(* Pure helpers *)

Abs(n) == IF n < 0 THEN -n ELSE n

\* Python round() of the fraction n/d (d > 0): nearest integer, ties to even.
Round(n, d) ==
    LET q == n \div d
        r == n % d
    IN  IF 2 * r < d THEN q
        ELSE IF 2 * r > d THEN q + 1
        ELSE IF q % 2 = 0 THEN q ELSE q + 1

Digit(d) == CASE d = 0 -> "0" [] d = 1 -> "1" [] d = 2 -> "2" [] d = 3 -> "3"
              [] d = 4 -> "4" [] d = 5 -> "5" [] d = 6 -> "6" [] d = 7 -> "7"
              [] d = 8 -> "8" [] d = 9 -> "9"

\* Decimal digits of a natural number, as format() writes them.
RECURSIVE NatStr(_)
NatStr(n) == IF n < 10 THEN <<Digit(n)>> ELSE NatStr(n \div 10) \o <<Digit(n % 10)>>

IntStr(n) == IF n < 0 THEN <<"-">> \o NatStr(-n) ELSE NatStr(n)

\* Natural number written with at least w digits (strftime's %H, %M, %S).
RECURSIVE Pad(_, _)
Pad(s, w) == IF Len(s) >= w THEN s ELSE Pad(<<"0">> \o s, w)

RECURSIVE StripTrailingZeros(_)
StripTrailingZeros(s) ==
    IF Len(s) > 1 /\ s[Len(s)] = "0" THEN StripTrailingZeros(SubSeq(s, 1, Len(s) - 1)) ELSE s

\* str(x) of a non-negative float given in thousandths: "0.5", "1.0", "1.25".
StrFloat(x) == NatStr(x \div 1000) \o <<".">> \o StripTrailingZeros(Pad(NatStr(x % 1000), 3))

\* s.replace(old, new) for a one-character old.
RECURSIVE Replace(_, _, _)
Replace(s, old, new) ==
    IF s = <<>> THEN <<>>
    ELSE <<IF Head(s) = old THEN new ELSE Head(s)>> \o Replace(Tail(s), old, new)

\* str.lower() on the values the gender widget offers.
Lower(s) == CASE s = "Female" -> "female" [] s = "Male" -> "male" [] OTHER -> s

\* s.startswith(prefix), for a prefix that is one token.
StartsWith(s, prefix) == s # <<>> /\ Head(s) = prefix

\* str.strip(): leading and trailing whitespace removed.
RECURSIVE LStrip(_)
LStrip(s) == IF s # <<>> /\ Head(s) \in Whitespace THEN LStrip(Tail(s)) ELSE s
RECURSIVE RStrip(_)
RStrip(s) == IF s # <<>> /\ s[Len(s)] \in Whitespace THEN RStrip(SubSeq(s, 1, Len(s) - 1)) ELSE s
\* Strip as `if not text:` without .strip() would have it.
Strip_None(s) == s
Strip(s) == RStrip(LStrip(s))


-----------------------------------------------------------------------------
(* Rate Mapper, lines 31-39 *)

\* The mapper without its special case for zero: f"{pct}%" gives "0%".
speed_to_edge_rate_Unsigned(x) ==
    LET pct == Round((x - 1000) * 100, 1000)
    IN  IF pct > 0 THEN <<"+">> \o IntStr(pct) \o <<"%">> ELSE IntStr(pct) \o <<"%">>

speed_to_edge_rate(x) ==
    LET pct == Round((x - 1000) * 100, 1000)
    IN  IF pct > 0 THEN <<"+">> \o IntStr(pct) \o <<"%">>
        ELSE IF pct < 0 THEN IntStr(pct) \o <<"%">>
        ELSE <<"+", "0", "%">>

\* The lookup with another entry as its default.
ResolveVoice_WrongDefault(l, g) ==
    IF <<l, g>> \in DOMAIN VOICES THEN VOICES[<<l, g>>] ELSE VOICES[<<"en", "Male">>]

\* VOICES.get((lang, gender), VOICES[("en", "Female")]), line 46
ResolveVoice(l, g) ==
    IF <<l, g>> \in DOMAIN VOICES THEN VOICES[<<l, g>>] ELSE VOICES[<<"en", "Female">>]

\* The test with a tolerance of zero: abs(speed - 1.0) < 0.
IsUnitySpeed_Never(x) == Abs(x - 1000) * 1000 < 0

\* abs(speed - 1.0) < 1e-6, line 61 (1e-6 is a thousandth of a thousandth)
IsUnitySpeed(x) == Abs(x - 1000) * 1000 < 1

-----------------------------------------------------------------------------
(* File names and paths, lines 41, 57, 117-119 *)

\* dt.datetime.now().strftime("%Y%m%d_%H%M%S") at second t of the day of the run
Strftime(t) ==
    <<"YYYYmmdd", "_">> \o Pad(NatStr(t \div 3600), 2)
                       \o Pad(NatStr((t \div 60) % 60), 2)
                       \o Pad(NatStr(t % 60), 2)

\* The name without the speed in it.
Filename_NoSpeed(l, g, x, t) ==
    <<"tekross_voice_", l, "_", Lower(g), "_">> \o <<"x_">> \o Strftime(t) \o <<".mp3">>

Filename(l, g, x, t) ==
    <<"tekross_voice_", l, "_", Lower(g), "_">> \o Replace(StrFloat(x), ".", "_")
        \o <<"x_">> \o Strftime(t) \o <<".mp3">>

OUTPUT_DIR == <<"outputs", "/">>

OutPath(name) == OUTPUT_DIR \o name

\* Path.with_suffix: the last suffix of the name is replaced.
WithSuffix(p, suffix) == SubSeq(p, 1, Len(p) - 1) \o <<suffix>>

TmpPath(p) == WithSuffix(p, ".tmp.mp3")

out_path == OutPath(filename)
tmp_path == TmpPath(out_path)

-----------------------------------------------------------------------------
(* Files *)
NoFile == [kind |-> "none", run |-> 0, n |-> 0]
Data(k, r, n) == [kind |-> k, run |-> r, n |-> n]

Exists(f, p) == p \in DOMAIN f
\* open(p, "wb") followed by writes, or any call that leaves content c at p
WriteFile(f, p, c) == [q \in DOMAIN f \cup {p} |-> IF q = p THEN c ELSE f[q]]
\* An unlink that removes nothing.
Unlink_Noop(f, p) == f
\* Path.unlink(missing_ok=True)
Unlink(f, p) == [q \in DOMAIN f \ {p} |-> f[q]]
\* A rename that leaves an existing target as it is.
Rename_KeepTarget(f, a, b) ==
    IF b \in DOMAIN f THEN f
    ELSE [q \in (DOMAIN f \ {a}) \cup {b} |-> IF q = b THEN f[a] ELSE f[q]]
\* Path.rename (POSIX): the target is replaced by the source
Rename(f, a, b) == [q \in (DOMAIN f \ {a}) \cup {b} |-> IF q = b THEN f[a] ELSE f[q]]

Logged(p) == writes \cup {<<run, p>>}


-----------------------------------------------------------------------------
(* Initial states *)

\* What every run starts from: nothing called, nothing shown.
FreshRun ==
    /\ attempt = 0 /\ loopRunning = FALSE /\ loop = "none" /\ bodyRuns = 0
    /\ comm = <<>> /\ chunks = 0 /\ gttsCalls = 0 /\ stretchOps = {}
    /\ failedAt = "" /\ exc = "" /\ fnEnd = ""
    /\ msgs = {} /\ offered = NoFile

\* The page as first rendered: widget defaults (lines 86-104), outputs/ empty.
InitPage ==
    /\ pc = "idle" /\ run = 0 /\ clock = 0
    /\ text = DEFAULT_TEXT /\ lang = "en" /\ gender = "Female"
    /\ engine = <<"Edge-TTS", " (recommended)">> /\ speed = 1000
    /\ filename = <<>>
    /\ fs = [q \in {} |-> NoFile]
    /\ reqs = {} /\ writes = {}
    /\ FreshRun

\* The page with the widgets set to any values they offer, before Generate
\* is pressed for the first time.
Init ==
    /\ pc = "idle" /\ run = 0 /\ clock = 0
    /\ text \in TextInputs
    /\ \E label \in LangLabels : lang = IF label = "English" THEN "en" ELSE "ja"
    /\ gender \in GenderOptions
    /\ engine \in EngineOptions /\ speed \in SPEED_OPTIONS
    /\ filename = <<>>
    /\ fs = [q \in {} |-> NoFile]
    /\ reqs = {} /\ writes = {}
    /\ FreshRun

\* Arguments synthesize_edge_tts may be called with, registered in VOICES or not.
LangArgs == {"en", "ja", "fr"}
GenderArgs == {"Female", "Male", "Neutral"}

\* A direct call synthesize_edge_tts(text, lang, gender, speed, out_path).
InitFn ==
    /\ pc = "edge_call" /\ run = 1 /\ clock = 0
    /\ text \in {t \in TextInputs : Strip(t) # <<>>}
    /\ lang \in LangArgs /\ gender \in GenderArgs
    /\ engine = <<"Edge-TTS", " (recommended)">> /\ speed \in SPEED_OPTIONS
    /\ filename = Filename(lang, gender, speed, clock)
    /\ fs = [q \in {} |-> NoFile]
    /\ reqs = {} /\ writes = {}
    /\ FreshRun

-----------------------------------------------------------------------------
(* The Generate handler, lines 112-149 *)

\* Lines 112-122: the script runs with the button pressed.  Empty or blank
\* text: warning and st.stop().  Otherwise name the output and dispatch.
Generate ==
    /\ pc = "idle"
    /\ run < MaxRuns
    /\ run' = run + 1
    /\ IF Strip(text) = <<>>
         THEN /\ msgs' = msgs \cup {"warning"}
              /\ pc' = "stopped"
              /\ UNCHANGED <<filename, reqs>>
         ELSE /\ filename' = Filename(lang, gender, speed, clock)
              /\ reqs' = reqs \cup {[run |-> run + 1, lang |-> lang, gender |-> gender,
                                     speed |-> speed, clock |-> clock,
                                     filename |-> Filename(lang, gender, speed, clock)]}
              /\ pc' = IF StartsWith(engine, "Edge-TTS") THEN "asyncio_run" ELSE "gtts_call"
              /\ UNCHANGED msgs
    /\ UNCHANGED <<clock, text, lang, gender, engine, speed, fs, attempt, loopRunning,
                   loop, bodyRuns, comm, chunks, gttsCalls, stretchOps, failedAt, exc,
                   fnEnd, offered, writes>>

\* Exceptions a backend may raise: a RuntimeError (or a subclass of it), or
\* any other Exception (network error, bad value, missing ffmpeg, OSError).
BackendErrors == {"RuntimeError", "Exception"}

\* Line 124, asyncio.run(...): with a loop already running in this thread it
\* raises RuntimeError and the coroutine never starts; else the body runs.
AsyncioRun ==
    /\ pc = "asyncio_run"
    /\ \E lr \in BOOLEAN :
          /\ loopRunning' = lr
          /\ IF lr THEN /\ pc' = "fallback"
                        /\ exc' = "RuntimeError"
                        /\ failedAt' = "asyncio.run"
                        /\ UNCHANGED attempt
                   ELSE /\ pc' = "edge_call"
                        /\ attempt' = 1
                        /\ UNCHANGED <<exc, failedAt>>
    /\ UNCHANGED <<run, clock, text, lang, gender, engine, speed, filename, fs, loop,
                   bodyRuns, comm, chunks, gttsCalls, stretchOps, fnEnd, msgs,
                   offered, reqs, writes>>

\* Lines 45-48: the body of synthesize_edge_tts starts; voice and rate are
\* resolved and edge_tts.Communicate is constructed.
EdgeCommunicate ==
    /\ pc = "edge_call"
    /\ bodyRuns' = bodyRuns + 1
    /\ comm' = <<ResolveVoice(lang, gender), speed_to_edge_rate(speed)>>
    /\ chunks' = 0
    /\ pc' = "edge_open"
    /\ exc' = "" /\ failedAt' = "" /\ fnEnd' = ""
    /\ UNCHANGED <<run, clock, text, lang, gender, engine, speed, filename, fs, attempt,
                   loopRunning, loop, gttsCalls, stretchOps, msgs, offered, reqs, writes>>

\* Line 48 raises: the constructor refuses its arguments.
EdgeCommunicateRaise ==
    /\ pc = "edge_call"
    /\ bodyRuns' = bodyRuns + 1
    /\ comm' = <<ResolveVoice(lang, gender), speed_to_edge_rate(speed)>>
    /\ chunks' = 0
    /\ pc' = "edge_raised"
    /\ \E e \in BackendErrors : exc' = e
    /\ failedAt' = "Communicate" /\ fnEnd' = "raised"
    /\ UNCHANGED <<run, clock, text, lang, gender, engine, speed, filename, fs, attempt,
                   loopRunning, loop, gttsCalls, stretchOps, msgs, offered, reqs, writes>>

\* Line 49: open(out_path, "wb") creates the file, or truncates the one there.
EdgeOpen ==
    /\ pc = "edge_open"
    /\ fs' = WriteFile(fs, out_path, Data("edge", run, 0))
    /\ writes' = Logged(out_path)
    /\ pc' = "edge_stream"
    /\ UNCHANGED <<run, clock, text, lang, gender, engine, speed, filename, attempt,
                   loopRunning, loop, bodyRuns, comm, chunks, gttsCalls, stretchOps,
                   failedAt, exc, fnEnd, msgs, offered, reqs>>

\* Lines 50-52: one chunk arrives; audio is appended, anything else ignored.
EdgeChunk ==
    /\ pc = "edge_stream"
    /\ chunks < MaxChunks
    /\ chunks' = chunks + 1
    /\ \E type \in {"audio", "WordBoundary"} :
          fs' = IF type = "audio"
                  THEN WriteFile(fs, out_path, Data("edge", run, fs[out_path].n + 1))
                  ELSE fs
    /\ UNCHANGED <<pc, run, clock, text, lang, gender, engine, speed, filename, attempt,
                   loopRunning, loop, bodyRuns, comm, gttsCalls, stretchOps, failedAt,
                   exc, fnEnd, msgs, offered, reqs, writes>>

\* Lines 50, 53: the stream is exhausted; the file is closed, out_path returned.
EdgeReturn ==
    /\ pc = "edge_stream"
    /\ pc' = "edge_returned"
    /\ fnEnd' = "returned"
    /\ UNCHANGED <<run, clock, text, lang, gender, engine, speed, filename, fs, attempt,
                   loopRunning, loop, bodyRuns, comm, chunks, gttsCalls, stretchOps,
                   failedAt, exc, msgs, offered, reqs, writes>>

\* Line 50: the stream raises (service unreachable, voice refused, no audio);
\* the with block closes the file, which stays as written so far.
EdgeStreamRaise ==
    /\ pc = "edge_stream"
    /\ \E e \in BackendErrors : exc' = e
    /\ failedAt' = "stream"
    /\ fnEnd' = "raised"
    /\ pc' = "edge_raised"
    /\ UNCHANGED <<run, clock, text, lang, gender, engine, speed, filename, fs, attempt,
                   loopRunning, loop, bodyRuns, comm, chunks, gttsCalls, stretchOps,
                   msgs, offered, reqs, writes>>

\* Line 124 returns: on to line 132.
AsyncioRunReturn ==
    /\ pc = "edge_returned" /\ attempt = 1
    /\ pc' = "success"
    /\ UNCHANGED <<run, clock, text, lang, gender, engine, speed, filename, fs, attempt,
                   loopRunning, loop, bodyRuns, comm, chunks, gttsCalls, stretchOps,
                   failedAt, exc, fnEnd, msgs, offered, reqs, writes>>

\* Lines 124-125: asyncio.run re-raises what the coroutine raised; a
\* RuntimeError is taken by `except RuntimeError`, anything else by line 143.
AsyncioRunRaise ==
    /\ pc = "edge_raised" /\ attempt = 1
    /\ pc' = IF exc = "RuntimeError" THEN "fallback" ELSE "except"
    /\ UNCHANGED <<run, clock, text, lang, gender, engine, speed, filename, fs, attempt,
                   loopRunning, loop, bodyRuns, comm, chunks, gttsCalls, stretchOps,
                   failedAt, exc, fnEnd, msgs, offered, reqs, writes>>

\* Lines 126-127: a new loop is created and asked to run the coroutine; with a
\* loop already running in this thread run_until_complete raises RuntimeError.
Fallback ==
    /\ pc = "fallback"
    /\ loop' = "open"
    /\ IF loopRunning
         THEN /\ pc' = "except"
              /\ exc' = "RuntimeError" /\ failedAt' = "run_until_complete"
              /\ UNCHANGED attempt
         ELSE /\ pc' = "edge_call"
              /\ attempt' = 2
              /\ UNCHANGED <<exc, failedAt>>
    /\ UNCHANGED <<run, clock, text, lang, gender, engine, speed, filename, fs,
                   loopRunning, bodyRuns, comm, chunks, gttsCalls, stretchOps, fnEnd,
                   msgs, offered, reqs, writes>>

\* Lines 127-128: run_until_complete returns and the loop is closed.
FallbackReturn ==
    /\ pc = "edge_returned" /\ attempt = 2
    /\ loop' = "closed"
    /\ pc' = "success"
    /\ UNCHANGED <<run, clock, text, lang, gender, engine, speed, filename, fs, attempt,
                   loopRunning, bodyRuns, comm, chunks, gttsCalls, stretchOps,
                   failedAt, exc, fnEnd, msgs, offered, reqs, writes>>

\* Line 127 raises: line 128 is skipped, the exception reaches line 143.
FallbackRaise ==
    /\ pc = "edge_raised" /\ attempt = 2
    /\ pc' = "except"
    /\ UNCHANGED <<run, clock, text, lang, gender, engine, speed, filename, fs, attempt,
                   loopRunning, loop, bodyRuns, comm, chunks, gttsCalls, stretchOps,
                   failedAt, exc, fnEnd, msgs, offered, reqs, writes>>


-----------------------------------------------------------------------------
(* synthesize_gtts, lines 55-78 *)

\* Lines 57-58: gTTS(...).save(tmp_path) writes the normal-speed audio.
GttsSave ==
    /\ pc = "gtts_call"
    /\ gttsCalls' = gttsCalls + 1
    /\ fs' = WriteFile(fs, tmp_path, Data("normal", run, 0))
    /\ writes' = Logged(tmp_path)
    /\ pc' = "gtts_saved"
    /\ UNCHANGED <<run, clock, text, lang, gender, engine, speed, filename, attempt,
                   loopRunning, loop, bodyRuns, comm, chunks, stretchOps, failedAt,
                   exc, fnEnd, msgs, offered, reqs>>

\* Line 58 raises, before the temporary file is opened or after, leaving it
\* incomplete; nothing in synthesize_gtts catches it.
GttsSaveRaise ==
    /\ pc = "gtts_call"
    /\ gttsCalls' = gttsCalls + 1
    /\ \E opened \in BOOLEAN :
          /\ fs' = IF opened THEN WriteFile(fs, tmp_path, Data("partial", run, 0)) ELSE fs
          /\ writes' = IF opened THEN Logged(tmp_path) ELSE writes
    /\ \E e \in BackendErrors : exc' = e
    /\ failedAt' = "save" /\ fnEnd' = "raised"
    /\ pc' = "except"
    /\ UNCHANGED <<run, clock, text, lang, gender, engine, speed, filename, attempt,
                   loopRunning, loop, bodyRuns, comm, chunks, stretchOps, msgs,
                   offered, reqs>>

\* Lines 61-63: at speed 1.0 the temporary file becomes the result.
GttsSpeedCheck ==
    /\ pc = "gtts_saved"
    /\ IF IsUnitySpeed(speed)
         THEN /\ fs' = Rename(fs, tmp_path, out_path)
              /\ writes' = Logged(out_path)
              /\ fnEnd' = "unity"
              /\ pc' = "success"
         ELSE /\ pc' = "decode"
              /\ UNCHANGED <<fs, writes, fnEnd>>
    /\ UNCHANGED <<run, clock, text, lang, gender, engine, speed, filename, attempt,
                   loopRunning, loop, bodyRuns, comm, chunks, gttsCalls, stretchOps,
                   failedAt, exc, msgs, offered, reqs>>

\* Line 67: AudioSegment.from_file(tmp_path); needs ffmpeg.
GttsDecode ==
    /\ pc = "decode"
    /\ stretchOps' = stretchOps \cup {"from_file"}
    /\ pc' = "speedup"
    /\ UNCHANGED <<run, clock, text, lang, gender, engine, speed, filename, fs, attempt,
                   loopRunning, loop, bodyRuns, comm, chunks, gttsCalls, failedAt, exc,
                   fnEnd, msgs, offered, reqs, writes>>

\* Line 67 raises (no ffmpeg, undecodable file): on to line 73.
GttsDecodeRaise ==
    /\ pc = "decode"
    /\ stretchOps' = stretchOps \cup {"from_file"}
    /\ \E e \in BackendErrors : exc' = e
    /\ failedAt' = "from_file"
    /\ pc' = "degrade"
    /\ UNCHANGED <<run, clock, text, lang, gender, engine, speed, filename, fs, attempt,
                   loopRunning, loop, bodyRuns, comm, chunks, gttsCalls, fnEnd, msgs,
                   offered, reqs, writes>>

\* Line 69: speedup(seg, playback_speed=speed).
GttsSpeedup ==
    /\ pc = "speedup"
    /\ stretchOps' = stretchOps \cup {"speedup"}
    /\ pc' = "export"
    /\ UNCHANGED <<run, clock, text, lang, gender, engine, speed, filename, fs, attempt,
                   loopRunning, loop, bodyRuns, comm, chunks, gttsCalls, failedAt, exc,
                   fnEnd, msgs, offered, reqs, writes>>

\* Line 69 raises: on to line 73.
GttsSpeedupRaise ==
    /\ pc = "speedup"
    /\ stretchOps' = stretchOps \cup {"speedup"}
    /\ \E e \in BackendErrors : exc' = e
    /\ failedAt' = "speedup"
    /\ pc' = "degrade"
    /\ UNCHANGED <<run, clock, text, lang, gender, engine, speed, filename, fs, attempt,
                   loopRunning, loop, bodyRuns, comm, chunks, gttsCalls, fnEnd, msgs,
                   offered, reqs, writes>>

\* Line 70: adjusted.export(out_path, format="mp3") writes the stretched audio.
GttsExport ==
    /\ pc = "export"
    /\ stretchOps' = stretchOps \cup {"export"}
    /\ fs' = WriteFile(fs, out_path, Data("stretched", run, 0))
    /\ writes' = Logged(out_path)
    /\ pc' = "unlink"
    /\ UNCHANGED <<run, clock, text, lang, gender, engine, speed, filename, attempt,
                   loopRunning, loop, bodyRuns, comm, chunks, gttsCalls, failedAt, exc,
                   fnEnd, msgs, offered, reqs>>

\* Line 70 raises; the export may already have opened out_path and written
\* part of the result.  On to line 73.
GttsExportRaise ==
    /\ pc = "export"
    /\ stretchOps' = stretchOps \cup {"export"}
    /\ \E opened \in BOOLEAN :
          /\ fs' = IF opened THEN WriteFile(fs, out_path, Data("partial", run, 0)) ELSE fs
          /\ writes' = IF opened THEN Logged(out_path) ELSE writes
    /\ \E e \in BackendErrors : exc' = e
    /\ failedAt' = "export"
    /\ pc' = "degrade"
    /\ UNCHANGED <<run, clock, text, lang, gender, engine, speed, filename, attempt,
                   loopRunning, loop, bodyRuns, comm, chunks, gttsCalls, fnEnd, msgs,
                   offered, reqs>>

\* Lines 71-72: the temporary file is removed and out_path returned.
GttsUnlink ==
    /\ pc = "unlink"
    /\ fs' = Unlink(fs, tmp_path)
    /\ fnEnd' = "stretched"
    /\ pc' = "success"
    /\ UNCHANGED <<run, clock, text, lang, gender, engine, speed, filename, attempt,
                   loopRunning, loop, bodyRuns, comm, chunks, gttsCalls, stretchOps,
                   failedAt, exc, msgs, offered, reqs, writes>>

\* Line 71 raises: the temporary file stays.  On to line 73.
GttsUnlinkRaise ==
    /\ pc = "unlink"
    /\ \E e \in BackendErrors : exc' = e
    /\ failedAt' = "unlink"
    /\ pc' = "degrade"
    /\ UNCHANGED <<run, clock, text, lang, gender, engine, speed, filename, fs, attempt,
                   loopRunning, loop, bodyRuns, comm, chunks, gttsCalls, stretchOps,
                   fnEnd, msgs, offered, reqs, writes>>

\* Lines 73-78: the temporary file is renamed to out_path and a RuntimeError
\* that describes the degradation is raised.
GttsDegrade ==
    /\ pc = "degrade"
    /\ fs' = Rename(fs, tmp_path, out_path)
    /\ writes' = Logged(out_path)
    /\ exc' = "RuntimeError"
    /\ fnEnd' = "degraded"
    /\ pc' = "except"
    /\ UNCHANGED <<run, clock, text, lang, gender, engine, speed, filename, attempt,
                   loopRunning, loop, bodyRuns, comm, chunks, gttsCalls, stretchOps,
                   failedAt, msgs, offered, reqs>>

-----------------------------------------------------------------------------
(* The end of the handler *)

\* Lines 132-141: success message, then the file is read and offered.  A
\* missing file makes read_bytes raise, which line 143 takes.
HandlerSuccess ==
    /\ pc = "success"
    /\ msgs' = msgs \cup {"success"}
    /\ IF Exists(fs, out_path)
         THEN /\ offered' = fs[out_path]
              /\ pc' = "done"
              /\ UNCHANGED <<exc, failedAt>>
         ELSE /\ exc' = "Exception" /\ failedAt' = "read_bytes"
              /\ pc' = "except"
              /\ UNCHANGED offered
    /\ UNCHANGED <<run, clock, text, lang, gender, engine, speed, filename, fs, attempt,
                   loopRunning, loop, bodyRuns, comm, chunks, gttsCalls, stretchOps,
                   fnEnd, reqs, writes>>

\* Lines 143-149: error message; a file found at out_path is offered all the same.
HandlerExcept ==
    /\ pc = "except"
    /\ msgs' = msgs \cup {"error"}
    /\ offered' = IF Exists(fs, out_path) THEN fs[out_path] ELSE NoFile
    /\ pc' = "done"
    /\ UNCHANGED <<run, clock, text, lang, gender, engine, speed, filename, fs, attempt,
                   loopRunning, loop, bodyRuns, comm, chunks, gttsCalls, stretchOps,
                   failedAt, exc, fnEnd, reqs, writes>>

\* The script ended (st.stop() or its last line) and the user turns to the
\* page again: what the run showed is cleared by the next run.  Files and
\* widget values stay; the clock may have moved on.
Rerun ==
    /\ pc \in {"done", "stopped"}
    /\ run < MaxRuns
    /\ pc' = "idle"
    /\ \E d \in {0, 1} : clock' = clock + d
    /\ filename' = <<>>
    /\ attempt' = 0 /\ loopRunning' = FALSE /\ loop' = "none" /\ bodyRuns' = 0
    /\ comm' = <<>> /\ chunks' = 0 /\ gttsCalls' = 0 /\ stretchOps' = {}
    /\ failedAt' = "" /\ exc' = "" /\ fnEnd' = ""
    /\ msgs' = {} /\ offered' = NoFile
    /\ UNCHANGED <<run, text, lang, gender, engine, speed, fs, reqs, writes>>

\* Lines 86-112: the user changes one widget; the script runs with the new
\* value and the button not pressed, so the handler is skipped.
ChangeWidget ==
    /\ pc = "idle"
    /\ run < MaxRuns
    /\ run' = run + 1
    /\ \/ /\ \E label \in LangLabels :
                lang' = IF label = "English" THEN "en" ELSE "ja"
          /\ lang' # lang
          /\ UNCHANGED <<gender, engine, speed, text>>
       \/ /\ gender' \in GenderOptions \ {gender}
          /\ UNCHANGED <<lang, engine, speed, text>>
       \/ /\ engine' \in EngineOptions \ {engine}
          /\ UNCHANGED <<lang, gender, speed, text>>
       \/ /\ speed' \in SPEED_OPTIONS \ {speed}
          /\ UNCHANGED <<lang, gender, engine, text>>
       \/ /\ text' \in TextInputs \ {text}
          /\ UNCHANGED <<lang, gender, engine, speed>>
    /\ UNCHANGED <<pc, clock, filename, fs, attempt, loopRunning, loop, bodyRuns, comm,
                   chunks, gttsCalls, stretchOps, failedAt, exc, fnEnd, msgs, offered,
                   reqs, writes>>

-----------------------------------------------------------------------------
(* Specifications *)

\* One press of Generate, the page freshly loaded and set up.
Next ==
    \/ Generate
    \/ AsyncioRun \/ AsyncioRunReturn \/ AsyncioRunRaise
    \/ Fallback \/ FallbackReturn \/ FallbackRaise
    \/ EdgeCommunicate \/ EdgeCommunicateRaise
    \/ EdgeOpen \/ EdgeChunk \/ EdgeReturn \/ EdgeStreamRaise
    \/ GttsSave \/ GttsSaveRaise \/ GttsSpeedCheck
    \/ GttsDecode \/ GttsDecodeRaise \/ GttsSpeedup \/ GttsSpeedupRaise
    \/ GttsExport \/ GttsExportRaise \/ GttsUnlink \/ GttsUnlinkRaise
    \/ GttsDegrade
    \/ HandlerSuccess \/ HandlerExcept

Spec == Init /\ [][Next]_vars

\* A session: the page as first rendered, then several interactions.
NextRuns == Next \/ Rerun \/ ChangeWidget

SpecRuns == InitPage /\ [][NextRuns]_vars

\* synthesize_edge_tts called directly, with arguments of every kind.
NextFn ==
    \/ EdgeCommunicate \/ EdgeCommunicateRaise
    \/ EdgeOpen \/ EdgeChunk \/ EdgeReturn \/ EdgeStreamRaise

SpecFn == InitFn /\ [][NextFn]_vars

-----------------------------------------------------------------------------
(* Properties *)

IsGtts == StartsWith(engine, "gTTS")
IsBlank(t) == \A i \in 1..Len(t) : t[i] \in Whitespace
OutExists == Exists(fs, out_path)
TmpExists == Exists(fs, tmp_path)
NormalAudio == Data("normal", run, 0)
WrittenBy(r) == {w[2] : w \in {v \in writes : v[1] = r}}

\* C1: for the speeds 0.5, 0.75, 1.0, 1.25, 1.5 the rate given to the primary
\* backend is "-50%", "-25%", "+0%", "+25%", "+50%"; it is never "0%".
C1_RateTable ==
    comm # <<>> =>
        /\ speed = 500  => comm[2] = <<"-", "5", "0", "%">>
        /\ speed = 750  => comm[2] = <<"-", "2", "5", "%">>
        /\ speed = 1000 => comm[2] = <<"+", "0", "%">>
        /\ speed = 1250 => comm[2] = <<"+", "2", "5", "%">>
        /\ speed = 1500 => comm[2] = <<"+", "5", "0", "%">>
        /\ comm[2] # <<"0", "%">>

\* C1 witness: the mapper was applied to 1.0 and gave the signed zero.
C1_Witness == comm # <<>> /\ speed = 1000 /\ comm[2] = <<"+", "0", "%">>

\* C7: the voice given to the primary backend is the catalog entry of a
\* registered (language, gender) pair and the en/Female entry of any other.
C7_VoiceResolved ==
    comm # <<>> =>
        /\ (lang = "en" /\ gender = "Female") => comm[1] = "en-US-JennyNeural"
        /\ (lang = "en" /\ gender = "Male")   => comm[1] = "en-US-GuyNeural"
        /\ (lang = "ja" /\ gender = "Female") => comm[1] = "ja-JP-NanamiNeural"
        /\ (lang = "ja" /\ gender = "Male")   => comm[1] = "ja-JP-KeitaNeural"
        /\ (lang \notin {"en", "ja"} \/ gender \notin {"Female", "Male"})
              => comm[1] = "en-US-JennyNeural"

\* C7 witness: an unregistered pair was resolved, to the en/Female voice.
C7_Witness ==
    comm # <<>> /\ lang = "fr" /\ gender = "Male" /\ comm[1] = "en-US-JennyNeural"

\* C2: a run whose text is empty or whitespace only stops at the warning:
\* no backend was called, no path named or written, nothing offered.
C2_BlankTextRejected ==
    (IsBlank(text) /\ pc # "idle") =>
        /\ pc = "stopped"
        /\ msgs = {"warning"}
        /\ bodyRuns = 0 /\ gttsCalls = 0 /\ stretchOps = {} /\ comm = <<>>
        /\ filename = <<>>
        /\ WrittenBy(run) = {} /\ DOMAIN fs = {}
        /\ offered = NoFile

\* C2 witness: whitespace-only text was rejected with the secondary engine chosen.
C2_Witness ==
    pc = "stopped" /\ text = <<" ", "\t", "\n">> /\ IsGtts /\ speed = 1500

\* C3: when a step of the tempo-stretch failed after the temporary file was
\* produced, synthesize_gtts ends with the normal-speed audio at out_path and
\* a RuntimeError.
C3_DegradedKeepsNormalSpeed ==
    (failedAt \in {"from_file", "speedup", "export", "unlink"} /\ pc \in {"except", "done"}) =>
        /\ fnEnd = "degraded"
        /\ exc = "RuntimeError"
        /\ OutExists /\ fs[out_path] = NormalAudio

\* C3 witness: the export failed and the handler was reached with the
\* normal-speed file in place.
C3_Witness ==
    /\ failedAt = "export" /\ pc = "except" /\ speed # 1000
    /\ OutExists /\ fs[out_path] = NormalAudio

\* C4: with the secondary engine at speed 1.0 no tempo-stretch operation is
\* invoked, and once the backend has saved its file the function returns with
\* that file renamed to out_path.
C4_UnitySpeedNoStretch ==
    (IsGtts /\ speed = 1000) =>
        /\ stretchOps = {}
        /\ pc \notin {"decode", "speedup", "export", "unlink", "degrade"}
        /\ (pc \in {"success", "except", "done"} /\ failedAt # "save") =>
              /\ fnEnd = "unity"
              /\ exc = ""
              /\ OutExists /\ fs[out_path] = NormalAudio
              /\ ~TmpExists

\* C4 witness: a run at speed 1.0 with the secondary engine succeeded.
C4_Witness ==
    /\ IsGtts /\ speed = 1000 /\ pc = "done"
    /\ msgs = {"success"} /\ offered = NormalAudio

\* C10: however synthesize_gtts ends once the temporary file was produced (at
\* speed 1.0, after a stretch, or degraded), the temporary file is gone and a
\* file is at out_path.
C10_TmpGoneOutPresent ==
    fnEnd \in {"unity", "stretched", "degraded"} => (~TmpExists /\ OutExists)

\* C10 witness: a stretch succeeded and its temporary file is gone.
C10_Witness ==
    /\ fnEnd = "stretched" /\ pc = "done" /\ ~TmpExists
    /\ fs[out_path] = Data("stretched", run, 0)

\* C5: for one Generate the body of synthesize_edge_tts is executed exactly
\* once whatever the caller's context; in no run, one whose first attempt
\* ends with a RuntimeError included, is it executed twice.
C5_NeverTwice == bodyRuns <= 1

\* C6: when a backend call has failed hard, the exception leaves the
\* synthesis function and no file is at out_path.
C6_HardFailureNoFile ==
    (failedAt \in {"Communicate", "stream", "save"} /\ pc \in {"edge_raised", "except"}) =>
        (exc # "" /\ ~OutExists)

\* C8: a run in which a synthesis function raised (its last call did, or the
\* body ran again after a first call had raised) shows the error message and
\* not the success message, and offers the file at out_path iff there is one.
C8_FailureShownFileOffered ==
    (pc = "done" /\ (fnEnd \in {"raised", "degraded"} \/ bodyRuns > 1)) =>
        /\ msgs = {"error"}
        /\ offered = IF OutExists THEN fs[out_path] ELSE NoFile

\* C9: no two runs write the same path, and runs that differ in second,
\* language, gender or speed have different file names.
C9_FreshPathPerRun ==
    /\ \A v, w \in writes : v[1] # w[1] => v[2] # w[2]
    /\ \A r, q \in reqs :
          (r.lang # q.lang \/ r.gender # q.gender \/ r.speed # q.speed \/ r.clock # q.clock)
              => r.filename # q.filename

\* C9 (amended): runs that differ in second, language, gender or speed have
\* different file names and write no common path; runs that agree on all four
\* have the same file name.
C9_FreshPathWhenParamsDiffer ==
    \A r, q \in reqs :
        IF r.lang # q.lang \/ r.gender # q.gender \/ r.speed # q.speed \/ r.clock # q.clock
          THEN /\ r.filename # q.filename
               /\ WrittenBy(r.run) \cap WrittenBy(q.run) = {}
          ELSE r.filename = q.filename

\* C9 witness: two runs that differ in speed only have both written a file.
C9_Witness ==
    \E r, q \in reqs :
        /\ r.speed # q.speed /\ r.lang = q.lang /\ r.gender = q.gender /\ r.clock = q.clock
        /\ WrittenBy(r.run) # {} /\ WrittenBy(q.run) # {}

=============================================================================
